---- MODULE Spec2Model ----
(***************************************************************************)
(* A model of src/inventory_system.py: the InventorySystem class (stock    *)
(* map, session log, JSON backing file) driven by an arbitrary caller.     *)
(*                                                                         *)
(* Python values are records [t, n, s, items]:                             *)
(*   t = "none" | "bool" | "int" | "str" | "list" | "dict" | "pair"        *)
(*   n = the number of an int or a bool (True = 1, False = 0)              *)
(*   s = the characters of a str, or the key of a dict entry ("pair")      *)
(*   items = the elements of a list, the entries of a dict in insertion    *)
(*           order, or the single value of a dict entry                    *)
(* A text (a file's content) is a sequence of one-character strings.       *)
(***************************************************************************)
EXTENDS Integers, Sequences, FiniteSets, TLC

(* ---------------------------- bounds ----------------------------------- *)
MaxQty == 2      \* largest quantity a caller passes
MaxStock == 2    \* additions that would take an item above this are not explored
MaxLog == 2      \* mutations per session that are explored

(* ---------------------------- Python values ---------------------------- *)
PyNone == [t |-> "none", n |-> 0, s |-> <<>>, items |-> <<>>]
PyBool(b) == [t |-> "bool", n |-> IF b THEN 1 ELSE 0, s |-> <<>>, items |-> <<>>]
PyInt(i) == [t |-> "int", n |-> i, s |-> <<>>, items |-> <<>>]
PyStr(cs) == [t |-> "str", n |-> 0, s |-> cs, items |-> <<>>]
PyList(xs) == [t |-> "list", n |-> 0, s |-> <<>>, items |-> xs]
PyDict(es) == [t |-> "dict", n |-> 0, s |-> <<>>, items |-> es]
PyPair(k, v) == [t |-> "pair", n |-> 0, s |-> k, items |-> <<v>>]
EmptyDict == PyDict(<<>>)

\* isinstance(v, int): bool is a subclass of int
IsInstanceInt(v) == v.t \in {"int", "bool"}
\* isinstance(v, str)
IsInstanceStr(v) == v.t = "str"
\* truth value of an object, as "not v" uses it
Truthy(v) ==
  CASE v.t = "none" -> FALSE
    [] v.t \in {"int", "bool"} -> v.n # 0
    [] v.t = "str" -> Len(v.s) > 0
    [] OTHER -> Len(v.items) > 0

(* ---------------------------- dict operations -------------------------- *)
\* the keys of a dict, in insertion order
KeySet(d) == {d.items[i].s : i \in 1..Len(d.items)}
HasKey(d, k) == k \in KeySet(d)
KeyIndex(d, k) == CHOOSE i \in 1..Len(d.items) : d.items[i].s = k
\* d[k] for a key that is present
DictGet(d, k) == d.items[KeyIndex(d, k)].items[1]
\* d.get(k, default)
DictGetDefault(d, k, default) == IF HasKey(d, k) THEN DictGet(d, k) ELSE default
\* d[k] = v: a present key keeps its position, a new key goes last
DictSet(d, k, v) ==
  IF HasKey(d, k)
  THEN PyDict([d.items EXCEPT ![KeyIndex(d, k)] = PyPair(k, v)])
  ELSE PyDict(Append(d.items, PyPair(k, v)))
\* del d[k]
DictDel(d, k) ==
  PyDict(SubSeq(d.items, 1, KeyIndex(d, k) - 1)
         \o SubSeq(d.items, KeyIndex(d, k) + 1, Len(d.items)))

(* ---------------------------- json.dumps -------------------------------- *)
Digits == <<"0", "1", "2", "3", "4", "5", "6", "7", "8", "9">>
IndentWidth == 4   \* json.dumps(..., indent=4)
Spaces(k) == [i \in 1..k |-> " "]

RECURSIVE NatToText(_)
NatToText(i) ==
  IF i < 10 THEN <<Digits[i + 1]>>
  ELSE NatToText(i \div 10) \o <<Digits[(i % 10) + 1]>>
\* repr of an int, as json.dumps writes it
IntToText(i) == IF i < 0 THEN <<"-">> \o NatToText(-i) ELSE NatToText(i)

\* json.dumps(v, indent=4) of a value nested `level` containers deep.
\* Strings are over letters only, so no character needs escaping.
RECURSIVE Dumps(_, _)
RECURSIVE DumpItems(_, _, _)
DumpItems(xs, level, i) ==
  IF i > Len(xs) THEN <<>>
  ELSE (IF i = 1 THEN <<>> ELSE <<",">>)
       \o <<"\n">> \o Spaces(IndentWidth * (level + 1))
       \o Dumps(xs[i], level + 1)
       \o DumpItems(xs, level, i + 1)
Dumps(v, level) ==
  CASE v.t = "none" -> <<"n", "u", "l", "l">>
    [] v.t = "bool" -> IF v.n = 1 THEN <<"t", "r", "u", "e">>
                       ELSE <<"f", "a", "l", "s", "e">>
    [] v.t = "int" -> IntToText(v.n)
    [] v.t = "str" -> <<"\"">> \o v.s \o <<"\"">>
    [] v.t = "pair" -> <<"\"">> \o v.s \o <<"\"", ":", " ">> \o Dumps(v.items[1], level)
    [] v.t = "list" ->
         IF Len(v.items) = 0 THEN <<"[", "]">>
         ELSE <<"[">> \o DumpItems(v.items, level, 1)
              \o <<"\n">> \o Spaces(IndentWidth * level) \o <<"]">>
    [] OTHER ->
         IF Len(v.items) = 0 THEN <<"{", "}">>
         ELSE <<"{">> \o DumpItems(v.items, level, 1)
              \o <<"\n">> \o Spaces(IndentWidth * level) \o <<"}">>
json_dumps(v) == Dumps(v, 0)

(* ---------------------------- json.loads -------------------------------- *)
\* The decoder over the alphabet of the texts explored here: letters, digits,
\* '-', '"', ':', ',', brackets, braces, space and newline.  A result is
\* [ok, val, pos]: whether a value was decoded, the value, and the index of
\* the first character after it.
ParseFail == [ok |-> FALSE, val |-> PyNone, pos |-> 0]
ParseOk(v, p) == [ok |-> TRUE, val |-> v, pos |-> p]
IsDigit(c) == \E i \in 1..10 : Digits[i] = c
DigitVal(c) == (CHOOSE i \in 1..10 : Digits[i] = c) - 1
CharAt(txt, i) == IF i >= 1 /\ i <= Len(txt) THEN txt[i] ELSE "EOF"

RECURSIVE SkipWs(_, _)
SkipWs(txt, i) ==
  IF CharAt(txt, i) \in {" ", "\n"} THEN SkipWs(txt, i + 1) ELSE i

\* txt[i..] starts with the characters of word
StartsWith(txt, i, word) ==
  \A k \in 1..Len(word) : CharAt(txt, i + k - 1) = word[k]

\* the characters of a string whose opening quote is before i
RECURSIVE ScanString(_, _, _)
ScanString(txt, i, acc) ==
  LET c == CharAt(txt, i) IN
  IF c = "\"" THEN ParseOk(PyStr(acc), i + 1)
  ELSE IF c \in {"EOF", "\n"} THEN ParseFail
  ELSE ScanString(txt, i + 1, Append(acc, c))

\* the digits of a number starting at i
RECURSIVE ScanDigits(_, _, _)
ScanDigits(txt, i, acc) ==
  IF IsDigit(CharAt(txt, i))
  THEN ScanDigits(txt, i + 1, acc * 10 + DigitVal(CharAt(txt, i)))
  ELSE ParseOk(PyInt(acc), i)
\* NUMBER_RE: -?(0|[1-9][0-9]*)
ScanNumber(txt, i) ==
  LET neg == CharAt(txt, i) = "-"
      j == IF neg THEN i + 1 ELSE i
      r == IF CharAt(txt, j) = "0" THEN ParseOk(PyInt(0), j + 1)
           ELSE IF IsDigit(CharAt(txt, j)) THEN ScanDigits(txt, j, 0)
           ELSE ParseFail
  IN IF r.ok /\ neg THEN ParseOk(PyInt(-r.val.n), r.pos) ELSE r

\* dict(pairs): a repeated key keeps its first position and its last value
RECURSIVE DictFromPairs(_, _, _)
DictFromPairs(ps, i, d) ==
  IF i > Len(ps) THEN d
  ELSE DictFromPairs(ps, i + 1, DictSet(d, ps[i].s, ps[i].items[1]))

RECURSIVE ScanOnce(_, _)
RECURSIVE ScanMembers(_, _, _)
RECURSIVE ScanElements(_, _, _)
\* JSONObject's loop: i is at the opening quote of a key
ScanMembers(txt, i, acc) ==
  IF CharAt(txt, i) # "\"" THEN ParseFail
  ELSE
    LET key == ScanString(txt, i + 1, <<>>) IN
    IF ~key.ok THEN ParseFail
    ELSE
      LET c == SkipWs(txt, key.pos) IN
      IF CharAt(txt, c) # ":" THEN ParseFail
      ELSE
        LET val == ScanOnce(txt, SkipWs(txt, c + 1)) IN
        IF ~val.ok THEN ParseFail
        ELSE
          LET e == SkipWs(txt, val.pos)
              pairs == Append(acc, PyPair(key.val.s, val.val))
          IN IF CharAt(txt, e) = "}"
             THEN ParseOk(DictFromPairs(pairs, 1, EmptyDict), e + 1)
             ELSE IF CharAt(txt, e) = ","
             THEN ScanMembers(txt, SkipWs(txt, e + 1), pairs)
             ELSE ParseFail
\* JSONArray's loop: i is at the start of an element
ScanElements(txt, i, acc) ==
  LET val == ScanOnce(txt, i) IN
  IF ~val.ok THEN ParseFail
  ELSE
    LET e == SkipWs(txt, val.pos)
        xs == Append(acc, val.val)
    IN IF CharAt(txt, e) = "]" THEN ParseOk(PyList(xs), e + 1)
       ELSE IF CharAt(txt, e) = "," THEN ScanElements(txt, SkipWs(txt, e + 1), xs)
       ELSE ParseFail
\* scan_once: the value starting exactly at i
ScanOnce(txt, i) ==
  LET c == CharAt(txt, i) IN
  CASE c = "\"" -> ScanString(txt, i + 1, <<>>)
    [] c = "{" ->
         LET j == SkipWs(txt, i + 1) IN
         IF CharAt(txt, j) = "}" THEN ParseOk(EmptyDict, j + 1)
         ELSE ScanMembers(txt, j, <<>>)
    [] c = "[" ->
         LET j == SkipWs(txt, i + 1) IN
         IF CharAt(txt, j) = "]" THEN ParseOk(PyList(<<>>), j + 1)
         ELSE ScanElements(txt, j, <<>>)
    [] c = "n" /\ StartsWith(txt, i, <<"n", "u", "l", "l">>) -> ParseOk(PyNone, i + 4)
    [] c = "t" /\ StartsWith(txt, i, <<"t", "r", "u", "e">>) -> ParseOk(PyBool(TRUE), i + 4)
    [] c = "f" /\ StartsWith(txt, i, <<"f", "a", "l", "s", "e">>) -> ParseOk(PyBool(FALSE), i + 5)
    [] c = "-" \/ IsDigit(c) -> ScanNumber(txt, i)
    [] OTHER -> ParseFail
\* json.loads(txt): [ok |-> FALSE] stands for JSONDecodeError
json_loads(txt) ==
  LET r == ScanOnce(txt, SkipWs(txt, 1)) IN
  IF r.ok /\ SkipWs(txt, r.pos) = Len(txt) + 1 THEN r ELSE ParseFail

(* ---------------------------- the store --------------------------------- *)
VARIABLES
  stock_data,   \* self.stock_data: whatever load_data put there, then a dict
  logs,         \* self.logs: the log messages of this session
  file,         \* the backing file self.inventory_file: [exists, text]
  status,       \* "running", "exited" after sys.exit(1), "crashed" after an
                \* exception nobody caught
  last          \* the call made last: [op, res, out, arg, ret]
vars == <<stock_data, logs, file, status, last>>

ItemNames == {<<"a">>, <<"b">>}
\* lines 30 and 57: not isinstance(item, str) or not item
ItemRejected(item) == ~IsInstanceStr(item) \/ ~Truthy(item)
\* lines 34 and 61: not isinstance(qty, int) or qty < 0
QtyRejected(qty) == ~IsInstanceInt(qty) \/ qty.n < 0

\* what a caller passes as item: two names, the empty string, a number
Items == {PyStr(k) : k \in ItemNames} \cup {PyStr(<<>>), PyInt(123)}
\* what a caller passes as qty: integers from -1, a string, a bool
Qtys == {PyInt(i) : i \in -1..MaxQty}
        \cup {PyStr(<<"t", "e", "n">>), PyBool(TRUE)}
\* the (item, qty) pairs a caller passes to add_item and remove_item: every
\* name with every integer qty >= 0, one name with each other kind of qty (a
\* negative integer, a string, a bool), and each other kind of item with one
\* qty (the outcome of a rejected call does not depend on the rest)
Calls ==
  {<<PyStr(k), qty>> : k \in ItemNames,
                       qty \in {q \in Qtys : q.t = "int" /\ q.n >= 0}}
  \cup {<<PyStr(<<"a">>), qty>> : qty \in {q \in Qtys : q.t # "int" \/ q.n < 0}}
  \cup {<<item, PyInt(1)>> : item \in {i \in Items : ItemRejected(i)}}
DefaultThreshold == 5
Thresholds == {PyInt(2), PyInt(DefaultThreshold)}

NoFile == [exists |-> FALSE, text |-> <<>>]
TextFile(txt) == [exists |-> TRUE, text |-> txt]
\* a JSON object that is not a stock map: an empty name, a string and a
\* negative number as quantities
OddStock ==
  PyDict(<<PyPair(<<>>, PyInt(10)), PyPair(<<"a">>, PyStr(<<"x">>)),
           PyPair(<<"b">>, PyInt(-1))>>)
\* what the backing file may hold when the store is constructed
InitialFiles ==
  {NoFile,
   TextFile(<<>>),
   TextFile(<<"n", "u", "l", "l">>),
   TextFile(<<"[", "\"", "a", "\"", "]">>),
   TextFile(json_dumps(OddStock))}

\* the call record: the operation, "returned" | "raised" | "exited", the kinds
\* of the lines it printed, and for check_low_items the threshold it was given
\* and the list it returned (None for the other calls)
Call(op, res, out) ==
  [op |-> op, res |-> res, out |-> out, arg |-> PyNone, ret |-> PyNone]

\* f"{str(datetime.now())}: Added|Removed {qty} of {item}" and the optional
\* f". Item '{item}' removed from stock."  The timestamp is left out: it is
\* text that nothing reads back.
LogMessage(action, qty, item, suffix) ==
  [action |-> action, qty |-> qty, item |-> item, suffix |-> suffix]

\* sub occurs in cs (str.__contains__)
IsSubstring(sub, cs) ==
  \E i \in 1..(Len(cs) - Len(sub) + 1) : SubSeq(cs, i, i + Len(sub) - 1) = sub

\* a faulty variant of LoadedStock: a file that is missing or is not JSON
\* leaves the stock map as it was
LoadedStockKept(f, fault, cur) ==
  IF fault THEN cur
  ELSE IF ~f.exists THEN cur
  ELSE LET r == json_loads(f.text) IN IF r.ok THEN r.val ELSE cur
(* load_data: what a read of file f leaves in self.stock_data.  fault is an
   error of the read other than FileNotFoundError and JSONDecodeError. *)
LoadedStock(f, fault, cur) ==
  IF fault THEN cur
  ELSE IF ~f.exists THEN EmptyDict
  ELSE LET r == json_loads(f.text) IN IF r.ok THEN r.val ELSE EmptyDict
\* the line load_data prints
LoadedOut(f, fault) ==
  IF fault THEN <<"An unexpected error occurred">>
  ELSE IF ~f.exists THEN <<"Warning: not found">>
  ELSE IF json_loads(f.text).ok THEN <<"Data loaded">>
  ELSE <<"Error: Could not decode">>
LoadedCall(op, f, fault) ==
  Call(op, IF fault THEN "exited" ELSE "returned", LoadedOut(f, fault))

\* __init__: empty stock and log, then load_data()
Init ==
  \E f \in InitialFiles, fault \in BOOLEAN :
    /\ file = f
    /\ stock_data = LoadedStock(f, fault, EmptyDict)
    /\ logs = <<>>
    /\ status = IF fault THEN "exited" ELSE "running"
    /\ last = LoadedCall("__init__", f, fault)

\* a call that comes back without touching the store
Returns(op, out) ==
  /\ last' = Call(op, "returned", out)
  /\ UNCHANGED <<stock_data, logs, file, status>>
\* a call that raises before touching the store: its caller handles the
\* exception, or like main does not and the interpreter exits with status 1
Raises(op) ==
  /\ last' = Call(op, "raised", <<>>)
  /\ status' \in {"running", "crashed"}
  /\ UNCHANGED <<stock_data, logs, file>>

\* a faulty variant of Increased: the quantity is overwritten, not added to
Overwritten(cur, qty) == PyInt(qty.n)
\* line 40: self.stock_data.get(item, 0) + qty
Increased(cur, qty) == PyInt(cur.n + qty.n)
\* a faulty variant of LogAppend: the message is put first
LogPrepend(lg, msg) == <<msg>> \o lg
\* self.logs.append(log_message)
LogAppend(lg, msg) == Append(lg, msg)

\* line 40: the stock map after item has been given qty more
AddedStock(sd, item, qty) ==
  DictSet(sd, item.s, Increased(DictGetDefault(sd, item.s, PyInt(0)), qty))

add_item(item, qty) ==
  /\ status = "running"
  /\ IF ItemRejected(item)
     THEN Returns("add_item", <<"Error: Item name">>)
     ELSE IF QtyRejected(qty)
     THEN Returns("add_item", <<"Error: Quantity">>)
     ELSE IF stock_data.t # "dict"
     THEN Raises("add_item")                          \* no attribute 'get'
     ELSE
       LET cur == DictGetDefault(stock_data, item.s, PyInt(0)) IN
       IF ~IsInstanceInt(cur)
       THEN Raises("add_item")                        \* cur + qty: TypeError
       ELSE
         /\ Increased(cur, qty).n <= MaxStock
         /\ Len(logs) < MaxLog
         /\ stock_data' = AddedStock(stock_data, item, qty)
         /\ logs' = LogAppend(logs, LogMessage("Added", qty, item.s, FALSE))
         /\ last' = Call("add_item", "returned", <<"Added">>)
         /\ UNCHANGED <<file, status>>

\* a faulty variant of Membership: looking up a missing key is an error (KeyError)
MembershipOrError(item, container) ==
  IF container.t = "dict" /\ HasKey(container, item.s) THEN "in" ELSE "error"
\* line 68, item not in self.stock_data: "in", "absent" or "error"
Membership(item, container) ==
  CASE container.t = "dict" ->
         IF HasKey(container, item.s) THEN "in" ELSE "absent"
    [] container.t = "list" ->
         IF \E i \in 1..Len(container.items) : container.items[i] = item
         THEN "in" ELSE "absent"
    [] container.t = "str" ->
         IF IsSubstring(item.s, container.s) THEN "in" ELSE "absent"
    [] OTHER -> "error"

\* a faulty variant of Clamped: the requested quantity is taken off whatever is there
NotClamped(cur, qty) == qty
\* lines 72-78: the quantity that is taken off
Clamped(cur, qty) == IF cur.n < qty.n THEN cur ELSE qty
\* a faulty variant of Depleted: an item drained to exactly 0 is kept
BelowZero(left) == left < 0
\* line 83: self.stock_data[item] <= 0
Depleted(left) == left <= 0

\* lines 72-84: the stock map after qty, or what there is, has been taken off
\* item
RemovedStock(sd, item, qty) ==
  LET cur == DictGet(sd, item.s)
      left == cur.n - Clamped(cur, qty).n
  IN IF Depleted(left) THEN DictDel(sd, item.s)
     ELSE DictSet(sd, item.s, PyInt(left))

remove_item(item, qty) ==
  /\ status = "running"
  /\ IF ItemRejected(item)
     THEN Returns("remove_item", <<"Error: Item name">>)
     ELSE IF QtyRejected(qty)
     THEN Returns("remove_item", <<"Error: Quantity">>)
     ELSE IF Membership(item, stock_data) = "error"
     THEN Raises("remove_item")                       \* not iterable
     ELSE IF Membership(item, stock_data) = "absent"
     THEN Returns("remove_item", <<"Info: not in stock">>)
     ELSE IF stock_data.t # "dict"
     THEN Raises("remove_item")                       \* list or str index
     ELSE
       LET cur == DictGet(stock_data, item.s) IN
       IF ~IsInstanceInt(cur)
       THEN Raises("remove_item")                     \* cur < qty: TypeError
       ELSE
         LET q == Clamped(cur, qty)
             left == cur.n - q.n                       \* line 80
         IN
         /\ Len(logs) < MaxLog
         /\ stock_data' = RemovedStock(stock_data, item, qty)
         /\ logs' = LogAppend(logs, LogMessage("Removed", q, item.s, Depleted(left)))
         /\ last' = Call("remove_item", "returned",
                         IF cur.n < qty.n THEN <<"Warning: Not enough stock", "Removed">>
                         ELSE <<"Removed">>)
         /\ UNCHANGED <<file, status>>

\* what get_qty(item) returns from stock map sd
GetQuantity(sd, item) ==
  IF IsInstanceStr(item) THEN DictGetDefault(sd, item.s, PyInt(0)) ELSE PyInt(0)

get_qty(item) ==
  /\ status = "running"
  /\ IF stock_data.t # "dict"
     THEN Raises("get_qty")                           \* no attribute 'get'
     ELSE Returns("get_qty", <<>>)

\* a faulty variant of load_data: a backing file that cannot be read is
\* replaced by one that holds the empty map
load_data_rewrites ==
  /\ status = "running"
  /\ \E fault \in BOOLEAN :
       /\ stock_data' = LoadedStock(file, fault, stock_data)
       /\ status' = IF fault THEN "exited" ELSE "running"
       /\ last' = LoadedCall("load_data", file, fault)
       /\ file' = IF ~fault /\ (~file.exists \/ ~json_loads(file.text).ok)
                  THEN TextFile(json_dumps(EmptyDict)) ELSE file
  /\ UNCHANGED logs
\* a load_data() call made by the caller after construction
load_data ==
  /\ status = "running"
  /\ \E fault \in BOOLEAN :
       /\ stock_data' = LoadedStock(file, fault, stock_data)
       /\ status' = IF fault THEN "exited" ELSE "running"
       /\ last' = LoadedCall("load_data", file, fault)
  /\ UNCHANGED <<logs, file>>

\* what a write that fails part-way leaves in the file opened with "w"
PartialWrite(txt) == SubSeq(txt, 1, 0)

\* a faulty variant of SavedText: str(self.stock_data) is written, with ' for "
ReprText(sd) ==
  [i \in 1..Len(json_dumps(sd)) |->
     IF json_dumps(sd)[i] = "\"" THEN "'" ELSE json_dumps(sd)[i]]
\* line 134: json.dumps(self.stock_data, indent=4)
SavedText(sd) == json_dumps(sd)

\* a faulty variant of save_data: the OSError is not caught
save_data_fatal ==
  /\ status = "running"
  /\ \/ /\ file' = TextFile(SavedText(stock_data))
        /\ last' = Call("save_data", "returned", <<"Data saved">>)
        /\ status' = status
     \/ /\ file' = file
        /\ last' = Call("save_data", "raised", <<>>)
        /\ status' = "crashed"
     \/ /\ file' = TextFile(PartialWrite(SavedText(stock_data)))
        /\ last' = Call("save_data", "raised", <<>>)
        /\ status' = "crashed"
  /\ UNCHANGED <<stock_data, logs>>
save_data ==
  /\ status = "running"
  /\ \/ /\ file' = TextFile(SavedText(stock_data))
        /\ last' = Call("save_data", "returned", <<"Data saved">>)
     \/ /\ file' = file                                   \* open() fails
        /\ last' = Call("save_data", "returned", <<"Error: Could not save">>)
     \/ /\ file' = TextFile(PartialWrite(SavedText(stock_data)))  \* write() fails
        /\ last' = Call("save_data", "returned", <<"Error: Could not save">>)
  /\ UNCHANGED <<stock_data, logs, status>>

print_report ==
  /\ status = "running"
  /\ IF Truthy(stock_data) /\ stock_data.t # "dict"
     THEN Raises("print_report")                      \* no attribute 'items'
     ELSE Returns("print_report", <<"Items Report">>)

\* the names of the entries of d from index i on whose quantity is below threshold
RECURSIVE LowItems(_, _, _)
LowItems(d, threshold, i) ==
  IF i > Len(d.items) THEN <<>>
  ELSE (IF d.items[i].items[1].n < threshold.n
        THEN <<PyStr(d.items[i].s)>> ELSE <<>>)
       \o LowItems(d, threshold, i + 1)
\* a faulty variant of CheckLowItems: the comparison is <=
CheckLowOrEqual(sd, threshold) ==
  LET low(e) == e.items[1].n <= threshold.n
      sel == SelectSeq(sd.items, low)
  IN PyList([i \in 1..Len(sel) |-> PyStr(sel[i].s)])
\* what check_low_items(threshold) returns from stock map sd
CheckLowItems(sd, threshold) == PyList(LowItems(sd, threshold, 1))

check_low_items(threshold) ==
  /\ status = "running"
  /\ IF \/ stock_data.t # "dict"
        \/ \E i \in 1..Len(stock_data.items) :
             ~IsInstanceInt(stock_data.items[i].items[1])
     THEN Raises("check_low_items")
     ELSE /\ last' = [Call("check_low_items", "returned", <<>>)
                        EXCEPT !.arg = threshold,
                               !.ret = CheckLowItems(stock_data, threshold)]
          /\ UNCHANGED <<stock_data, logs, file, status>>

Next ==
  \/ \E c \in Calls : add_item(c[1], c[2])
  \/ \E c \in Calls : remove_item(c[1], c[2])
  \/ \E item \in Items : get_qty(item)
  \/ load_data
  \/ save_data
  \/ print_report
  \/ \E threshold \in Thresholds : check_low_items(threshold)

Spec == Init /\ [][Next]_vars

\* a session on a store that was constructed empty and is never reloaded
InitEmpty == Init /\ stock_data = EmptyDict
NextSession ==
  \/ \E c \in Calls : add_item(c[1], c[2])
  \/ \E c \in Calls : remove_item(c[1], c[2])
  \/ \E item \in Items : get_qty(item)
  \/ save_data
  \/ print_report
  \/ \E threshold \in Thresholds : check_low_items(threshold)
SpecSession == InitEmpty /\ [][NextSession]_vars
\* a store constructed against any of the files and never reloaded
SpecStore == Init /\ [][NextSession]_vars

(* ---------------------------- properties -------------------------------- *)
\* the arguments the specification calls valid: a non-empty string and an
\* integer (not a bool) that is not negative
ValidItem(item) == item.t = "str" /\ Len(item.s) > 0
ValidQty(qty) == qty.t = "int" /\ qty.n >= 0
\* sd is a mapping in which name k is absent or has a number as quantity
HasQuantity(sd, k) ==
  sd.t = "dict" /\ IsInstanceInt(DictGetDefault(sd, k, PyInt(0)))
\* the entries of sd other than k are the entries of sd2 other than k
SameElsewhere(sd, sd2, k) ==
  /\ KeySet(sd) \ {k} = KeySet(sd2) \ {k}
  /\ \A o \in KeySet(sd) \ {k} : DictGet(sd, o) = DictGet(sd2, o)
\* the total of the quantities the log records for action on name k
RECURSIVE LoggedTotal(_, _, _, _)
LoggedTotal(lg, action, k, i) ==
  IF i > Len(lg) THEN 0
  ELSE (IF lg[i].action = action /\ lg[i].item = k THEN lg[i].qty.n ELSE 0)
       + LoggedTotal(lg, action, k, i + 1)

\* C1: after any sequence of add_item, remove_item, get_qty, check_low_items,
\* print_report and save_data calls no entry of the stock map has quantity 0.
C1_NoZeroQuantity ==
  stock_data.t = "dict" =>
    \A i \in 1..Len(stock_data.items) : stock_data.items[i].items[1] # PyInt(0)

\* C2: whatever the backing file held at construction, the stock map is a
\* mapping from non-empty strings to integers >= 0.
C2_StockMapWellFormed ==
  status = "running" =>
    /\ stock_data.t = "dict"
    /\ \A i \in 1..Len(stock_data.items) :
         /\ Len(stock_data.items[i].s) > 0
         /\ stock_data.items[i].items[1].t = "int"
         /\ stock_data.items[i].items[1].n >= 0

\* C3: in a session that started empty, get_qty of every item is the total
\* added to it minus the total actually taken off it, and 0 when it is absent.
C3_QuantityIsAddedMinusRemoved ==
  \A k \in ItemNames :
    /\ GetQuantity(stock_data, PyStr(k))
         = PyInt(LoggedTotal(logs, "Added", k, 1) - LoggedTotal(logs, "Removed", k, 1))
    /\ ~HasKey(stock_data, k) => GetQuantity(stock_data, PyStr(k)) = PyInt(0)
C3_Witness ==
  \E k \in ItemNames :
    /\ LoggedTotal(logs, "Added", k, 1) > LoggedTotal(logs, "Removed", k, 1)
    /\ LoggedTotal(logs, "Removed", k, 1) > 0
    /\ HasKey(stock_data, k)

\* C4: add_item or remove_item with an item that is not a non-empty string, or
\* a qty that is not a non-negative integer (a bool included), changes neither
\* the stock map nor the log and returns normally.
C4_InvalidArgumentsChangeNothing ==
  [][last'.op \in {"add_item", "remove_item"} =>
       \A c \in Calls :
         (/\ ~ValidItem(c[1]) \/ ~ValidQty(c[2])
          /\ add_item(c[1], c[2]) \/ remove_item(c[1], c[2]))
         => /\ stock_data' = stock_data
            /\ logs' = logs
            /\ last'.res = "returned"]_vars

\* C5: a valid add_item(item, qty) makes the item's quantity its previous one
\* (0 if absent) plus qty, keeps every other entry and appends one log entry.
C5_AddItemAddsQuantity ==
  [][last'.op = "add_item" =>
       \A c \in Calls :
         (/\ ValidItem(c[1]) /\ ValidQty(c[2])
          /\ HasQuantity(stock_data, c[1].s)
          /\ add_item(c[1], c[2]))
         => /\ HasKey(stock_data', c[1].s)
            /\ GetQuantity(stock_data', c[1])
                 = PyInt(GetQuantity(stock_data, c[1]).n + c[2].n)
            /\ SameElsewhere(stock_data, stock_data', c[1].s)
            /\ Len(logs') = Len(logs) + 1
            /\ last'.res = "returned"]_vars
\* add_item("a", 1) then add_item("a", 1) gives get_qty("a") = 2
C5_Witness ==
  /\ last.op = "add_item"
  /\ logs = <<LogMessage("Added", PyInt(1), <<"a">>, FALSE),
              LogMessage("Added", PyInt(1), <<"a">>, FALSE)>>
  /\ GetQuantity(stock_data, PyStr(<<"a">>)) = PyInt(2)

\* C6: a valid remove_item(item, qty) asking for more than the item's stock
\* returns normally, deletes the key (get_qty gives 0), keeps every other entry
\* and logs the quantity that was available, not the one asked for.
C6_ClampedRemovalEmptiesItem ==
  [][last'.op = "remove_item" =>
       \A c \in Calls :
         (/\ ValidItem(c[1]) /\ ValidQty(c[2])
          /\ HasQuantity(stock_data, c[1].s) /\ HasKey(stock_data, c[1].s)
          /\ c[2].n > GetQuantity(stock_data, c[1]).n
          /\ remove_item(c[1], c[2]))
         => /\ last'.res = "returned"
            /\ ~HasKey(stock_data', c[1].s)
            /\ GetQuantity(stock_data', c[1]) = PyInt(0)
            /\ SameElsewhere(stock_data, stock_data', c[1].s)
            /\ logs' = Append(logs, LogMessage("Removed", GetQuantity(stock_data, c[1]),
                                               c[1].s, TRUE))]_vars
\* add_item("a", 1) then remove_item("a", 2): 1 is logged and "a" is gone
C6_Witness ==
  /\ last = Call("remove_item", "returned", <<"Warning: Not enough stock", "Removed">>)
  /\ logs = <<LogMessage("Added", PyInt(1), <<"a">>, FALSE),
              LogMessage("Removed", PyInt(1), <<"a">>, TRUE)>>
  /\ ~HasKey(stock_data, <<"a">>)

\* C7: a valid remove_item(item, qty) with qty <= the item's stock takes exactly
\* qty off; the key is deleted and the log entry has the suffix exactly when
\* nothing is left, otherwise the item stays with a positive quantity; every
\* other entry is kept.
C7_RemovalWithinStock ==
  [][last'.op = "remove_item" =>
       \A c \in Calls :
         (/\ ValidItem(c[1]) /\ ValidQty(c[2])
          /\ HasQuantity(stock_data, c[1].s) /\ HasKey(stock_data, c[1].s)
          /\ c[2].n <= GetQuantity(stock_data, c[1]).n
          /\ remove_item(c[1], c[2]))
         => LET left == GetQuantity(stock_data, c[1]).n - c[2].n IN
            /\ last'.res = "returned"
            /\ GetQuantity(stock_data', c[1]) = PyInt(left)
            /\ HasKey(stock_data', c[1].s) <=> left > 0
            /\ logs' = Append(logs, LogMessage("Removed", c[2], c[1].s, left <= 0))
            /\ SameElsewhere(stock_data, stock_data', c[1].s)]_vars
\* add_item("a", 2) then remove_item("a", 1) leaves 1, and the same with
\* remove_item("a", 2) would have left nothing
C7_Witness ==
  /\ last = Call("remove_item", "returned", <<"Removed">>)
  /\ logs = <<LogMessage("Added", PyInt(2), <<"a">>, FALSE),
              LogMessage("Removed", PyInt(1), <<"a">>, FALSE)>>
  /\ GetQuantity(stock_data, PyStr(<<"a">>)) = PyInt(1)

\* C8: a valid remove_item on an item that is not in the stock map changes
\* neither the stock map nor the log and returns normally.
C8_RemovingAbsentItemChangesNothing ==
  [][last'.op = "remove_item" =>
       \A c \in Calls :
         (/\ ValidItem(c[1]) /\ ValidQty(c[2])
          /\ stock_data.t = "dict" /\ ~HasKey(stock_data, c[1].s)
          /\ remove_item(c[1], c[2]))
         => /\ stock_data' = stock_data
            /\ logs' = logs
            /\ last'.res = "returned"]_vars
\* a remove_item that found its item missing from a map that holds another
C8_Witness ==
  /\ last = Call("remove_item", "returned", <<"Info: not in stock">>)
  /\ stock_data.t = "dict"
  /\ Len(stock_data.items) > 0
  /\ Len(logs) > 0

\* the step is an add_item or remove_item call that passed validation, found
\* its item and came back
Mutates ==
  /\ last'.res = "returned"
  /\ last'.op \in {"add_item", "remove_item"}
  /\ last'.out \notin {<<"Error: Item name">>, <<"Error: Quantity">>,
                       <<"Info: not in stock">>}
  /\ \E c \in Calls :
       /\ ~ItemRejected(c[1]) /\ ~QtyRejected(c[2])
       /\ \/ last'.op = "add_item" /\ add_item(c[1], c[2])
          \/ /\ last'.op = "remove_item"
             /\ Membership(c[1], stock_data) = "in"
             /\ remove_item(c[1], c[2])

\* C9: the log only grows at its end: by one entry on an add_item or
\* remove_item call that passes validation and finds its item, by none on any
\* other call; the entries already there stay as and where they are.
C9_LogIsAppendOnly ==
  [][IF Mutates
     THEN /\ Len(logs') = Len(logs) + 1
          /\ SubSeq(logs', 1, Len(logs)) = logs
          /\ logs'[Len(logs')].action = (IF last'.op = "add_item" THEN "Added" ELSE "Removed")
     ELSE logs' = logs]_vars
\* two mutations are in the log, in order, and a load_data call came after them
C9_Witness ==
  /\ last.op = "load_data"
  /\ Len(logs) = 2
  /\ logs[1].action = "Added"
  /\ logs[2].action = "Removed"

\* the stock map a fresh store constructed against the file starts with
FreshStock == LoadedStock(file, FALSE, EmptyDict)
\* the same keys with the same quantities
SameMap(sd, sd2) ==
  IF sd.t = "dict" /\ sd2.t = "dict"
  THEN /\ KeySet(sd) = KeySet(sd2)
       /\ \A k \in KeySet(sd) : DictGet(sd, k) = DictGet(sd2, k)
  ELSE sd = sd2

\* C10: after a save_data that succeeded, a fresh store constructed against the
\* same file has the stock map the saving store has.
C10_SaveThenLoadRoundTrip ==
  (last = Call("save_data", "returned", <<"Data saved">>))
    => SameMap(FreshStock, stock_data)
\* a saved map of two items
C10_Witness ==
  /\ last = Call("save_data", "returned", <<"Data saved">>)
  /\ KeySet(stock_data) = ItemNames
  /\ SameMap(FreshStock, stock_data)

\* C11: after construction the stock map changes only in add_item and
\* remove_item steps: every other call, a load_data call included, leaves it
\* as it was.
C11_OnlyAddAndRemoveChangeStock ==
  [][(last'.op \notin {"add_item", "remove_item"}) => stock_data' = stock_data]_vars

\* the backing file is missing or does not hold JSON
Unreadable(f) == ~f.exists \/ ~json_loads(f.text).ok
\* C12: a load_data call on a backing file that is missing or is not valid
\* JSON leaves an empty stock map and the log as it was and does not end the
\* process; the store is then in the state of an empty store (with its log),
\* which is all a following add_item or save_data depends on.  The same holds
\* for the load made by the constructor.
C12_UnreadableFileLoadsEmpty ==
  /\ (last.op = "__init__" /\ last.res = "returned" /\ Unreadable(file))
       => (stock_data = EmptyDict /\ logs = <<>> /\ status = "running")
  /\ [][(last'.op = "load_data" /\ last'.res # "exited" /\ Unreadable(file))
         => /\ stock_data' = EmptyDict
            /\ logs' = logs
            /\ status' = "running"
            /\ last'.res = "returned"
            /\ file' = file]_vars
\* a store with an item and a log entry has loaded a file that is not JSON
C12_Witness ==
  /\ last = Call("load_data", "returned", <<"Error: Could not decode">>)
  /\ Len(logs) > 0
  /\ stock_data = EmptyDict
  /\ status = "running"

\* C13: the process ends abnormally only in a load (by the constructor or by
\* load_data) that met a read error other than a missing file or malformed
\* JSON; no other call ends it.
C13_OnlyLoadEndsTheProcess ==
  (status # "running")
    => /\ last.op \in {"__init__", "load_data"}
       /\ last.out = <<"An unexpected error occurred">>

\* the stock map a fresh store would load from file f
Reloaded(f) ==
  IF ~f.exists THEN EmptyDict
  ELSE LET r == json_loads(f.text) IN IF r.ok THEN r.val ELSE EmptyDict
\* C14: a save_data call never ends the process and never raises, whether the
\* write succeeds or fails, and leaves the stock map and the log as they were;
\* whenever it reports success, the file holds the whole current stock map.
C14_FailedSaveKeepsTheStore ==
  [][(last'.op = "save_data")
       => /\ stock_data' = stock_data
          /\ logs' = logs
          /\ status' = "running"
          /\ last'.res = "returned"
          /\ (last'.out = <<"Data saved">>)
               => (file'.exists /\ SameMap(Reloaded(file'), stock_data'))
          /\ (last'.out # <<"Data saved">>)
               => (last'.out = <<"Error: Could not save">>)]_vars
\* a save that failed in the middle of writing a map of two items: the file is
\* truncated, the map and the log are still there
C14_Witness ==
  /\ last = Call("save_data", "returned", <<"Error: Could not save">>)
  /\ file = TextFile(<<>>)
  /\ status = "running"
  /\ stock_data.t = "dict"
  /\ KeySet(stock_data) = ItemNames
  /\ Len(logs) = 2

\* the stock map of the documented example, {"apple": 7, "banana": 2}
ExampleStock ==
  PyDict(<<PyPair(<<"a", "p", "p", "l", "e">>, PyInt(7)),
           PyPair(<<"b", "a", "n", "a", "n", "a">>, PyInt(2))>>)
\* C15: check_low_items(threshold) returns the names of the stock map whose
\* quantity is strictly below threshold, each once and no other name, and
\* leaves the stock map and the log as they were; on {apple: 7, banana: 2}
\* with threshold 5 it returns [banana].
C15_LowItemsAreStrictlyBelow ==
  [][(last'.op = "check_low_items" /\ last'.res = "returned")
       => LET r == last'.ret.items
              low == {k \in KeySet(stock_data) :
                        DictGet(stock_data, k).n < last'.arg.n}
          IN /\ stock_data' = stock_data
             /\ logs' = logs
             /\ last'.ret.t = "list"
             /\ \A i \in 1..Len(r) : r[i].t = "str"
             /\ {r[i].s : i \in 1..Len(r)} = low
             /\ Len(r) = Cardinality(low)
             /\ CheckLowItems(ExampleStock, PyInt(DefaultThreshold))
                  = PyList(<<PyStr(<<"b", "a", "n", "a", "n", "a">>)>>)]_vars
\* with threshold 2, "a" at quantity 2 is left out and "b" at quantity 1 is
\* returned
C15_Witness ==
  /\ last.op = "check_low_items"
  /\ last.res = "returned"
  /\ last.arg = PyInt(2)
  /\ stock_data.t = "dict"
  /\ HasKey(stock_data, <<"a">>)
  /\ HasKey(stock_data, <<"b">>)
  /\ DictGet(stock_data, <<"a">>) = PyInt(2)
  /\ DictGet(stock_data, <<"b">>) = PyInt(1)
  /\ last.ret = PyList(<<PyStr(<<"b">>)>>)

\* C16: only save_data changes the backing file; add_item, remove_item,
\* get_qty, check_low_items, print_report and load_data leave it as it was, so
\* what a fresh store would load is what the last write left.
C16_OnlySaveWritesTheFile ==
  [][(last'.op # "save_data") => file' = file]_vars
\* "b" was added after a save of {"a": ...}: a fresh store would not see it
C16_Witness ==
  /\ last = Call("add_item", "returned", <<"Added">>)
  /\ file.exists
  /\ stock_data.t = "dict"
  /\ KeySet(stock_data) = ItemNames
  /\ Reloaded(file).t = "dict"
  /\ KeySet(Reloaded(file)) = {<<"a">>}
  /\ ~SameMap(Reloaded(file), stock_data)

\* C17: from every reachable stock map, add_item(item, qty) with a name and
\* qty >= 0, followed at once by remove_item(item, qty), gives back a stock map
\* with the same names and quantities.
C17_AddThenRemoveRestores ==
  (status = "running" /\ stock_data.t = "dict")
    => \A k \in ItemNames, q \in 0..MaxQty :
         (~HasKey(stock_data, k) \/ IsInstanceInt(DictGet(stock_data, k)))
           => SameMap(RemovedStock(AddedStock(stock_data, PyStr(k), PyInt(q)),
                                   PyStr(k), PyInt(q)),
                      stock_data)

====
